---- MODULE Spec2Model ----
(***************************************************************************)
(* Model of src/libjit/function.rs: the Function wrapper around a native   *)
(* jit_function_t.  Every method of the wrapper is one action; it forwards *)
(* to one entry point of the engine and returns () or a wrapped handle.    *)
(* The engine side (the jit_* entry points) is modelled at its interface.  *)
(***************************************************************************)
EXTENDS Integers, Sequences, FiniteSets, TLC

\* ---------------------------------------------------------------- bounds
MaxHandles  == 2   \* Rust handles (the original and its clones)
MaxLabels   == 1   \* Rust Label objects
MaxInsns    == 3   \* instructions emitted over the life of the function
MaxArgs     == 2   \* length of an args slice
MaxTable    == 1   \* length of a jump-table slice
MaxCodegens == 2   \* runs of the engine's code generator
ParamCount  == 1   \* parameters of the signature, (int32) -> int32
MaxIndex    == 2   \* largest index handed to get_param

\* ------------------------------------------------------- program constants
JitCallNothrow  == 1
JitCallNoReturn == 2
JitCallTail     == 4
\* the engine's "no label yet" value of jit_label_t, ~0 (all bits set)
jit_label_undefined == 0 - 1

\* ------------------------------------------------------------------ state
VARIABLES
  handles,    \* the live Rust handles; all hold the same jit_function_t
  eng,        \* the native function: alive, builder, is_compiled, ...
  insns,      \* the instruction stream of the builder
  code,       \* the stream the code generator last froze
  labelObj,   \* Rust Label objects: index -> its _label field, or undeclared
  emitted,    \* instructions emitted so far
  codegens,   \* runs of the code generator so far
  releases,   \* times the native function was destroyed
  last        \* the last wrapper call: entry point reached, what was handed
              \* to the engine, what the caller got back

vars == <<handles, eng, insns, code, labelObj, emitted, codegens, releases, last>>

Handles    == 1..MaxHandles
Labels     == 1..MaxLabels
Undeclared == 0 - 2

\* Values of the function (int32) -> int32 that are operands below:
\* get_param(0), the constant 0 and insn_leq(param0, zero).
Values     == {"param0", "zero", "cond"}
CondValues == {"cond"}
RetValues  == {"param0", "zero"}
ArgValues  == {"param0", "zero"}
IndexValues == {"param0"}
Inputs     == {0 - 4, 7}

\* NativeRef::as_ptr of a Value: the jit_value_t its wrapper holds.
as_ptr(v) == <<"jit_value_t", v>>
\* A &Value: the address of the Rust wrapper, not the handle inside it.
ref(v) == <<"&Value", v>>

NoRet == [ok |-> FALSE, v |-> 0]
NoPre == [state |-> "none", bound |-> FALSE, unbound |-> FALSE,
          recompilable |-> FALSE, catcher |-> FALSE, codegens |-> 0,
          others |-> 0, code |-> <<>>]

\* The state of the native function in the words of the life cycle.
State == IF ~eng.alive THEN "abandoned"
         ELSE IF eng.is_compiled THEN "compiled" ELSE "building"

\* ----------------------------------------------------------- the stream
Insn(op, label, via, val, tbl, n, flags) ==
  [op |-> op, label |-> label, via |-> via, val |-> val, tbl |-> tbl,
   n |-> n, flags |-> flags, catcher |-> eng.uses_catcher]

BranchOps == {"branch", "branch_if", "branch_if_not"}

\* Position at which the stream binds engine label id, 0 when it binds none.
LabelPos(s, id) ==
  LET ps == {i \in 1..Len(s) : s[i].op = "label" /\ s[i].label = id}
  IN  IF ps = {} THEN 0 ELSE CHOOSE i \in ps : \A j \in ps : i <= j

\* Engine labels some branch or jump table of the stream refers to.
Referenced(s) ==
  {s[i].label : i \in {j \in 1..Len(s) : s[j].op \in BranchOps}}
  \cup UNION {{s[i].tbl[k] : k \in 1..Len(s[i].tbl)} :
                i \in {j \in 1..Len(s) : s[j].op = "jump_table"}}

Unbound(s) == {id \in Referenced(s) : LabelPos(s, id) = 0}

\* The stream an emission appends to: a function whose builder was freed by
\* compilation gets a fresh builder on the next emission.
Builder == IF eng.builder THEN insns ELSE <<>>


\* The wrapper methods return () or a wrapped handle: the status the engine
\* returns is dropped by the `;` after the call, and nothing is reported.
Discard(status) == "ok"

\* One wrapper call: args is what the caller passed, argv what the engine was
\* handed, status what the engine returned, handed what the caller got back.
Call(op, entry, status, pre, args, argv, ret, handed) ==
  [op |-> op, entry |-> entry, status |-> status, reported |-> Discard(status),
   pre |-> pre, args |-> args, argv |-> argv, ret |-> ret, handed |-> handed]

Live == {h \in Handles : handles[h] = "live"}

\* Some Label-bound instruction of the stream was emitted through Label l.
BoundVia(s, l) == \E i \in 1..Len(s) : s[i].op = "label" /\ s[i].via = l

PreState ==
  [state |-> State, bound |-> FALSE, unbound |-> (Unbound(Builder) # {}),
   recompilable |-> eng.recompilable, catcher |-> eng.uses_catcher,
   codegens |-> codegens, others |-> Cardinality(Live) - 1, code |-> code]

\* A call the engine defines no result for: through a handle whose native
\* function was already destroyed (the pointer dangles and the engine reads
\* freed memory), or an invocation of code that is not compiled.  Any status
\* can come back; nothing is rejected on the way there.
Unchecked(op, entry, args, argv, handed) ==
  /\ \E st \in {0, 1} :
       last' = Call(op, entry, st, PreState, args, argv, NoRet, handed)
  /\ UNCHANGED <<handles, eng, insns, code, labelObj, emitted, codegens, releases>>

\* -------------------------------------------------- the engine's interface
\* _jit_function_ensure_builder followed by the append of one instruction.
Emit(i, next) ==
  /\ insns' = Append(Builder, i)
  /\ eng' = [eng EXCEPT !.builder = TRUE, !.next_label = next]
  /\ emitted' = emitted + 1

\* next_label belongs to the builder: a fresh builder starts at label 0.
NextLabel == IF eng.builder THEN eng.next_label ELSE 0

\* An in/out jit_label_t: jit_label_undefined is replaced by a new label.
Resolve(id) == IF id = jit_label_undefined THEN NextLabel ELSE id
After(id)   == IF id = jit_label_undefined THEN NextLabel + 1 ELSE NextLabel

\* jit_insn_label: 0 when the label is already bound, else binds it here.
LabelStatus(id) == IF LabelPos(Builder, Resolve(id)) # 0 THEN 0 ELSE 1

jit_insn_label(id, via) ==
  IF LabelStatus(id) = 1
    THEN Emit(Insn("label", Resolve(id), via, "none", <<>>, 0, 0), After(id))
    ELSE UNCHANGED <<eng, insns, emitted>>

\* jit_insn_branch, jit_insn_branch_if, jit_insn_branch_if_not.
jit_insn_branch(op, v, id, via) ==
  Emit(Insn(op, Resolve(id), via, v, <<>>, 0, 0), After(id))

jit_insn_jump_table(v, tbl) ==
  Emit(Insn("jump_table", Undeclared, 0, v, tbl, Len(tbl), 0), NextLabel)

jit_insn_return(v) ==
  Emit(Insn("return", Undeclared, 0, v, <<>>, 0, 0), NextLabel)

\* jit_insn_call_indirect / jit_insn_call_native: num_args and flags as given.
jit_insn_call(op, n, flags) ==
  Emit(Insn(op, Undeclared, 0, "none", <<>>, n, flags), NextLabel)

\* jit_function_compile: nothing to do without a builder (1 when compiled
\* code exists, else 0); fails on a branch to an unbound label; otherwise
\* generates code, freezes the stream and frees the builder.
CompileStatus ==
  IF ~eng.builder THEN (IF eng.is_compiled THEN 1 ELSE 0)
  ELSE IF Unbound(insns) # {} THEN 0 ELSE 1

jit_function_compile ==
  IF eng.builder /\ CompileStatus = 1
    THEN /\ code' = insns
         /\ insns' = <<>>
         /\ eng' = [eng EXCEPT !.builder = FALSE, !.is_compiled = TRUE]
         /\ codegens' = codegens + 1
    ELSE UNCHANGED <<eng, insns, code, codegens>>

\* jit_function_abandon: with a builder, a compiled function loses only the
\* builder and a function never compiled is destroyed; without one, nothing.
jit_function_abandon ==
  IF eng.builder
    THEN /\ insns' = <<>>
         /\ eng' = [eng EXCEPT !.builder = FALSE,
                               !.alive = eng.is_compiled]
         /\ releases' = IF eng.is_compiled THEN releases ELSE releases + 1
    ELSE UNCHANGED <<eng, insns, releases>>

\* Meaning of the operand Values for the argument x.
Eval(v, x) ==
  CASE v = "param0" -> x
    [] v = "zero"   -> 0
    [] v = "cond"   -> (IF x <= 0 THEN 1 ELSE 0)
    [] OTHER        -> 0

\* Execution of frozen code from position pc; falling off the end or running
\* out of fuel yields no defined result.
RECURSIVE Exec(_, _, _, _)
Exec(p, pc, x, fuel) ==
  IF fuel = 0 \/ pc < 1 \/ pc > Len(p) THEN NoRet
  ELSE LET i == p[pc] IN
    CASE i.op = "return" -> [ok |-> TRUE, v |-> Eval(i.val, x)]
      [] i.op = "branch" -> Exec(p, LabelPos(p, i.label), x, fuel - 1)
      [] i.op = "branch_if" ->
           Exec(p, IF Eval(i.val, x) # 0 THEN LabelPos(p, i.label) ELSE pc + 1,
                x, fuel - 1)
      [] i.op = "branch_if_not" ->
           Exec(p, IF Eval(i.val, x) = 0 THEN LabelPos(p, i.label) ELSE pc + 1,
                x, fuel - 1)
      [] i.op = "jump_table" ->
           Exec(p, IF Eval(i.val, x) \in 0..(Len(i.tbl) - 1)
                     THEN LabelPos(p, i.tbl[Eval(i.val, x) + 1]) ELSE pc + 1,
                x, fuel - 1)
      [] OTHER -> Exec(p, pc + 1, x, fuel - 1)

\* jit_function_apply on compiled code.
Run(p, x) == Exec(p, 1, x, 2 * Len(p) + 2)


\* ------------------------------------------------------------ the wrapper
\* Label::get_value: a copy of the Label's jit_label_t.  The engine gets the
\* address of that temporary, so what it writes back never reaches the Label.
get_value(l) == labelObj[l]

Init ==
  /\ handles = [h \in Handles |-> IF h = 1 THEN "live" ELSE "unused"]
  /\ eng = [alive |-> TRUE, builder |-> FALSE, is_compiled |-> FALSE,
            recompilable |-> FALSE, uses_catcher |-> FALSE, next_label |-> 0]
  /\ insns = <<>>
  /\ code = <<>>
  /\ labelObj = [l \in Labels |-> Undeclared]
  /\ emitted = 0
  /\ codegens = 0
  /\ releases = 0
  /\ last = Call("new", "jit_function_create", 1, NoPre, <<>>, <<>>, NoRet, "Function")

\* Label::new: reserves the next label of the function's builder.  Label
\* objects are numbered in the order of their creation.
LabelNew(l) ==
  /\ Live # {}
  /\ labelObj[l] = Undeclared
  /\ \A k \in 1..(l - 1) : labelObj[k] # Undeclared
  /\ IF eng.alive
       THEN /\ labelObj' = [labelObj EXCEPT ![l] = NextLabel]
            /\ eng' = [eng EXCEPT !.builder = TRUE, !.next_label = NextLabel + 1]
            /\ insns' = Builder
            /\ last' = Call("Label::new", "jit_function_reserve_label", 1,
                            PreState, <<l>>, <<>>, NoRet, "Label")
            /\ UNCHANGED <<handles, code, emitted, codegens, releases>>
       ELSE Unchecked("Label::new", "jit_function_reserve_label", <<l>>, <<>>, "Label")

set_recompilable ==
  /\ Live # {}
  /\ IF eng.alive
       THEN /\ eng' = [eng EXCEPT !.recompilable = TRUE]
            /\ last' = Call("set_recompilable", "jit_function_set_recompilable",
                            1, PreState, <<>>, <<>>, NoRet, "unit")
            /\ UNCHANGED <<handles, insns, code, labelObj, emitted, codegens,
                           releases>>
       ELSE Unchecked("set_recompilable", "jit_function_set_recompilable",
                     <<>>, <<>>, "unit")

compile ==
  /\ Live # {}
  /\ codegens < MaxCodegens
  /\ IF eng.alive
       THEN /\ jit_function_compile
            /\ last' = Call("compile", "jit_function_compile", CompileStatus,
                            PreState, <<>>, <<>>, NoRet, "unit")
            /\ UNCHANGED <<handles, labelObj, emitted, releases>>
       ELSE Unchecked("compile", "jit_function_compile", <<>>, <<>>, "unit")

get_param(param) ==
  /\ Live # {}
  /\ IF eng.alive
       THEN /\ eng' = [eng EXCEPT !.builder = TRUE, !.next_label = NextLabel]
            /\ insns' = Builder
            /\ last' = Call("get_param", "jit_value_get_param",
                            IF param < ParamCount THEN 1 ELSE 0, PreState,
                            <<param>>, <<param>>,
                            [ok |-> param < ParamCount, v |-> param], "Value")
            /\ UNCHANGED <<handles, code, labelObj, emitted, codegens, releases>>
       ELSE Unchecked("get_param", "jit_value_get_param", <<param>>, <<param>>, "Value")

insn_uses_catcher ==
  /\ Live # {}
  /\ IF eng.alive
       THEN /\ eng' = [eng EXCEPT !.builder = TRUE, !.next_label = NextLabel,
                                  !.uses_catcher = TRUE]
            /\ insns' = Builder
            /\ last' = Call("insn_uses_catcher", "jit_insn_uses_catcher", 1,
                            PreState, <<>>, <<>>, NoRet, "unit")
            /\ UNCHANGED <<handles, code, labelObj, emitted, codegens, releases>>
       ELSE Unchecked("insn_uses_catcher", "jit_insn_uses_catcher", <<>>, <<>>,
                     "unit")

insn_return(retval) ==
  /\ Live # {}
  /\ emitted < MaxInsns
  /\ IF eng.alive
       THEN /\ jit_insn_return(retval)
            /\ last' = Call("insn_return", "jit_insn_return", 1, PreState,
                            <<retval>>, <<as_ptr(retval)>>, NoRet, "unit")
            /\ UNCHANGED <<handles, code, labelObj, codegens, releases>>
       ELSE Unchecked("insn_return", "jit_insn_return", <<retval>>,
                     <<as_ptr(retval)>>, "unit")

insn_set_label(label) ==
  /\ Live # {}
  /\ emitted < MaxInsns
  /\ labelObj[label] # Undeclared
  /\ IF eng.alive
       THEN /\ jit_insn_label(get_value(label), label)
            /\ last' = Call("insn_set_label", "jit_insn_label",
                            LabelStatus(get_value(label)),
                            [PreState EXCEPT !.bound = BoundVia(Builder, label)],
                            <<label>>, <<get_value(label)>>, NoRet, "unit")
            /\ UNCHANGED <<handles, code, labelObj, codegens, releases>>
       ELSE Unchecked("insn_set_label", "jit_insn_label", <<label>>,
                     <<get_value(label)>>, "unit")

\* The three branch methods differ only in the entry point and the condition.
Branch(op, entry, value, id, label) ==
  /\ Live # {}
  /\ emitted < MaxInsns
  /\ labelObj[label] # Undeclared
  /\ IF eng.alive
       THEN /\ jit_insn_branch(op, value, id, label)
            /\ last' = Call(op, entry, 1, PreState, <<label>>, <<id>>, NoRet,
                            "unit")
            /\ UNCHANGED <<handles, code, labelObj, codegens, releases>>
       ELSE Unchecked(op, entry, <<label>>, <<id>>, "unit")

insn_branch(label) ==
  Branch("branch", "jit_insn_branch", "none", get_value(label), label)

\* A branch that hands the engine an undefined label instead of the Label's.
insn_branch_if_undefined(value, label) ==
  Branch("branch_if", "jit_insn_branch_if", value, jit_label_undefined, label)

insn_branch_if(value, label) ==
  Branch("branch_if", "jit_insn_branch_if", value, get_value(label), label)

insn_branch_if_not(value, label) ==
  Branch("branch_if_not", "jit_insn_branch_if_not", value, get_value(label), label)

\* transmute of a [Label] to a [jit_label_t]: the _label fields, in order.
insn_jump_table(value, labels) ==
  /\ Live # {}
  /\ emitted < MaxInsns
  /\ \A k \in 1..Len(labels) : labelObj[labels[k]] # Undeclared
  /\ IF eng.alive
       THEN /\ jit_insn_jump_table(value,
                                   [k \in 1..Len(labels) |-> labelObj[labels[k]]])
            /\ last' = Call("insn_jump_table", "jit_insn_jump_table", 1, PreState,
                            labels,
                            [k \in 1..Len(labels) |-> labelObj[labels[k]]],
                            NoRet, "unit")
            /\ UNCHANGED <<handles, code, labelObj, codegens, releases>>
       ELSE Unchecked("insn_jump_table", "jit_insn_jump_table", labels, <<>>, "unit")

\* The argument array the engine reads for insn_call_indirect: the slice of
\* &Value itself, reinterpreted as an array of jit_value_t.
IndirectArgv(args) == [k \in 1..Len(args) |-> ref(args[k])]

\* The argument array built for insn_call_native: as_ptr of every element.
NativeArgv(args) == [k \in 1..Len(args) |-> as_ptr(args[k])]

CallInsn(op, entry, args, argv, flags) ==
  /\ Live # {}
  /\ emitted < MaxInsns
  /\ IF eng.alive
       THEN /\ jit_insn_call(op, Len(argv), flags)
            /\ last' = Call(op, entry, 1, PreState, args, argv, NoRet, "Value")
            /\ UNCHANGED <<handles, code, labelObj, codegens, releases>>
       ELSE Unchecked(op, entry, args, argv, "Value")

insn_call_indirect(args) ==
  CallInsn("insn_call_indirect", "jit_insn_call_indirect", args,
           IndirectArgv(args), JitCallNothrow)

\* A native call that drops no-throw once the function uses a catcher.
insn_call_native_catcher(args) ==
  CallInsn("insn_call_native", "jit_insn_call_native", args,
           NativeArgv(args),
           IF eng.uses_catcher THEN 0 ELSE JitCallNothrow)

insn_call_native(args) ==
  CallInsn("insn_call_native", "jit_insn_call_native", args,
           NativeArgv(args), JitCallNothrow)

\* apply, execute and closure forward whatever the state of the function is.
Invoke(op, entry, args, ret, handed) ==
  /\ Live # {}
  /\ IF eng.alive /\ eng.is_compiled
       THEN /\ last' = Call(op, entry, 1, PreState, args, args, ret, handed)
            /\ UNCHANGED <<handles, eng, insns, code, labelObj, emitted,
                           codegens, releases>>
       ELSE Unchecked(op, entry, args, args, handed)

apply(x) == Invoke("apply", "jit_function_apply", <<x>>, Run(code, x), "unit")

execute(x) == Invoke("execute", "jit_function_apply", <<x>>, NoRet, "unit")

closure == Invoke("closure", "jit_function_to_closure", <<>>, NoRet, "closure")

\* #[deriving(Clone)]: a second handle holding the same pointer.
clone(h) ==
  /\ Live # {}
  /\ handles[h] = "unused"
  /\ handles' = [handles EXCEPT ![h] = "live"]
  /\ last' = Call("clone", "none", 1, PreState, <<>>, <<>>, NoRet, "Function")
  /\ UNCHANGED <<eng, insns, code, labelObj, emitted, codegens, releases>>

\* Drop: jit_function_abandon, whatever the state and whoever else holds it.
\* Abandoning an already destroyed function frees it again or does nothing.
drop(h) ==
  /\ handles[h] = "live"
  /\ handles' = [handles EXCEPT ![h] = "dropped"]
  /\ IF eng.alive
       THEN /\ jit_function_abandon
            /\ last' = Call("drop", "jit_function_abandon", 1, PreState, <<>>,
                            <<>>, NoRet, "unit")
       ELSE /\ \E again \in {0, 1} :
                 /\ releases' = releases + again
                 /\ last' = Call("drop", "jit_function_abandon", again, PreState,
                                 <<>>, <<>>, NoRet, "unit")
            /\ UNCHANGED <<eng, insns>>
  /\ UNCHANGED <<code, labelObj, emitted, codegens>>

\* ---------------------------------------------------------- specifications
Slices(S, n) == UNION {[1..k -> S] : k \in 0..n}

\* Labels and control flow: declare, bind, branch, return, compile, apply.
NextLabels ==
  \/ \E l \in Labels : LabelNew(l)
  \/ \E l \in Labels : insn_set_label(l)
  \/ \E l \in Labels : insn_branch(l)
  \/ \E l \in Labels, v \in CondValues : insn_branch_if(v, l)
  \/ \E l \in Labels, v \in CondValues : insn_branch_if_not(v, l)
  \/ \E v \in RetValues : insn_return(v)
  \/ compile
  \/ \E x \in Inputs : apply(x)

SpecLabels == Init /\ [][NextLabels]_vars

\* Life cycle: handles, compilation, parameters, invocation.
NextLife ==
  \/ \E h \in Handles : clone(h)
  \/ \E h \in Handles : drop(h)
  \/ set_recompilable
  \/ compile
  \/ \E i \in 0..MaxIndex : get_param(i)
  \/ \E v \in RetValues : insn_return(v)
  \/ \E x \in Inputs : apply(x)
  \/ \E x \in Inputs : execute(x)
  \/ closure

SpecLife == Init /\ [][NextLife]_vars

\* Call instructions: the argument slice and the call flags.
NextCalls ==
  \/ insn_uses_catcher
  \/ \E a \in Slices(ArgValues, MaxArgs) : insn_call_indirect(a)
  \/ \E a \in Slices(ArgValues, MaxArgs) : insn_call_native(a)
  \/ \E v \in RetValues : insn_return(v)

SpecCalls == Init /\ [][NextCalls]_vars

\* Every instruction that refers to a Label, jump tables included.
NextRefs ==
  \/ \E l \in Labels : LabelNew(l)
  \/ \E l \in Labels : insn_set_label(l)
  \/ \E l \in Labels : insn_branch(l)
  \/ \E l \in Labels, v \in CondValues : insn_branch_if(v, l)
  \/ \E l \in Labels, v \in CondValues : insn_branch_if_not(v, l)
  \/ \E v \in IndexValues, t \in Slices(Labels, MaxTable) : insn_jump_table(v, t)
  \/ \E v \in RetValues : insn_return(v)
  \/ compile
  \/ \E x \in Inputs : apply(x)

SpecRefs == Init /\ [][NextRefs]_vars


\* ------------------------------------------------------------ the claims
CallOps == {"insn_call_indirect", "insn_call_native"}
InvokeOps == {"apply", "execute", "closure"}

HasFlag(flags, f) == (flags \div f) % 2 = 1

\* Positions of the label instructions of s emitted through Label l.
Bindings(s, l) == {i \in 1..Len(s) : s[i].op = "label" /\ s[i].via = l}

\* Branches of s whose Label is bound later in s.
ForwardBranches(s) ==
  {i \in 1..Len(s) : s[i].op \in BranchOps
                     /\ \E j \in Bindings(s, s[i].via) : j > i}

\* Every branch of s goes through a Label that s binds.
AllBound(s) ==
  \A i \in 1..Len(s) : s[i].op \in BranchOps => Bindings(s, s[i].via) # {}

\* The stream with every engine label replaced by the Rust Label it came
\* through: the program as the caller wrote it.
AsWritten(s) ==
  [k \in 1..Len(s) |->
     IF s[k].op \in BranchOps \cup {"label"}
       THEN [s[k] EXCEPT !.label = s[k].via] ELSE s[k]]

\* C1: in the building state, an insn_set_label on a Label that an earlier
\* insn_set_label already bound reports an error and leaves the Label bound
\* at one position only.
C1_RebindReported ==
  (last.op = "insn_set_label" /\ last.pre.state = "building" /\ last.pre.bound)
    => /\ last.reported = "error"
       /\ Cardinality(Bindings(insns, last.args[1])) <= 1

\* C2: compile on a building function with a referenced but unbound label
\* reports an error and the function does not become compiled.
C2_UnboundReported ==
  (last.op = "compile" /\ last.pre.state = "building" /\ last.pre.unbound)
    => /\ last.reported = "error"
       /\ State # "compiled"

C4_ParamInRange ==
  (last.op = "get_param" /\ last.pre.state # "abandoned")
    => IF last.args[1] < ParamCount
         THEN last.handed = "Value" /\ last.ret.ok
         ELSE last.handed # "Value" /\ last.reported = "error"

\* C5: apply, execute and closure reach the engine's entry point only on a
\* compiled function; otherwise they are rejected with an error.
C5_InvokeCompiledOnly ==
  (last.op \in InvokeOps /\ last.pre.state # "compiled")
    => /\ last.entry = "none"
       /\ last.reported = "error"

\* C6: dropping a handle abandons a function never compiled and never hands
\* a compiled function to the engine's abandon operation.
C6_DropByState ==
  last.op = "drop"
    => /\ last.pre.state = "building" => last.entry = "jit_function_abandon"
       /\ last.pre.state = "compiled" => last.entry # "jit_function_abandon"

\* C7: under any clones and drops the native function is not released while
\* a handle is still live (no handle points at a released function), and it
\* is never released a second time.
C7_ReleasedOnce ==
  /\ Live # {} => (eng.alive /\ releases = 0)
  /\ releases <= 1

\* C8 as stated: a call carries no-throw exactly when insn_uses_catcher has
\* not been called before the call was emitted.
C8_NothrowUnlessCatcher ==
  \A i \in 1..Len(insns) :
    insns[i].op \in CallOps
      => (HasFlag(insns[i].flags, JitCallNothrow) <=> ~insns[i].catcher)

\* C8 as amended: every call carries the no-throw flag and no other, whether
\* or not insn_uses_catcher was called before it.
C8_AlwaysNothrow ==
  \A i \in 1..Len(insns) :
    insns[i].op \in CallOps
      => /\ HasFlag(insns[i].flags, JitCallNothrow)
         /\ ~HasFlag(insns[i].flags, JitCallNoReturn)
         /\ ~HasFlag(insns[i].flags, JitCallTail)

\* C8 witness: calls of both kinds emitted after insn_uses_catcher, and one
\* emitted before it.
C8_Witness ==
  /\ \E i \in 1..Len(insns) :
       insns[i].op = "insn_call_native" /\ insns[i].catcher
  /\ \E i \in 1..Len(insns) :
       insns[i].op = "insn_call_indirect" /\ insns[i].catcher
  /\ \E i \in 1..Len(insns) : insns[i].op \in CallOps /\ ~insns[i].catcher

\* C9: a compile on a compiled function that was never made recompilable
\* reports an error or changes nothing: the code generator does not run
\* again and the compiled code stays the same.
C9_CompileOnce ==
  (last.op = "compile" /\ last.pre.state = "compiled"
     /\ ~last.pre.recompilable)
    => \/ last.reported = "error"
       \/ (codegens = last.pre.codegens /\ code = last.pre.code)

\* C10: both call methods hand the engine the jit_value_t of every Value of
\* the slice, in order, and a count equal to the length of the slice.
C10_ArgvIsHandles ==
  (last.op \in CallOps /\ last.pre.state # "abandoned")
    => /\ last.argv = [k \in 1..Len(last.args) |-> as_ptr(last.args[k])]
       /\ insns[Len(insns)].n = Len(last.args)

====
